---- MODULE Spec2Model ----
(***************************************************************************)
(* Model of src/channel_tracker.py: the posting ledger (on_message), the   *)
(* registration commands (setup_channel, unsetup_channel), the query       *)
(* get_posts_in_period and the reminder loop check_reminders, over the     *)
(* JSON store read by load_data and written by save_data.                  *)
(*                                                                         *)
(* Every coroutine runs on one asyncio event loop: code between two awaits *)
(* is one atomic action, and another handler may run at every await.       *)
(* Display-only fields (name, guild_name, channel name, setup_by,          *)
(* setup_date, the ISO timestamp of a post entry) are left out.            *)
(***************************************************************************)
EXTENDS Integers, Sequences, FiniteSets, TLC

(* ------------------------------ bounds -------------------------------- *)
\* last calendar day the clock reaches when one channel is served
MaxDay == 4
\* last calendar day the clock reaches when two channels are served
PairLastDay == 2
\* clock instants per calendar day; instant 0 of a day is exactly midnight
TicksPerDay == 2

(* ----------------------------- constants ------------------------------ *)
REMINDER_DAYS == 2
\* Python None in a stored date field
None == -1
\* a stored date string that '%Y-%m-%d' cannot parse
Bad == -2

Users == {"u1", "u2"}
Guilds == {"g1", "g2"}
Channels == {"c1", "c2"}
\* message.guild.id of a message in channel c: a channel lives in one guild
ChannelGuild(c) == IF c = "c1" THEN "g1" ELSE "g2"
NoUser == "none"

\* unique_key = f"{guild_id}_{creator_id}"
unique_key(g, u) == <<g, u>>
Keys == Guilds \X Users

Days == 0..MaxDay
\* the clock instants of a day: time of day 0 is exactly 00:00:00.000000
TimesOfDay == 0..(TicksPerDay - 1)
\* the instant datetime.now() returns on day d at time of day tod
Instant(d, tod) == d * TicksPerDay + tod

(* --------------------------- date arithmetic -------------------------- *)
\* datetime.now().strftime('%Y-%m-%d') at clock instant t
strftime(t) == t \div TicksPerDay
\* datetime.strptime(s, '%Y-%m-%d'): the instant of midnight of day s
strptime(s) == s * TicksPerDay
\* strptime raises ValueError on a string that is not a date
Parses(s) == s >= 0
\* (datetime.now() - datetime.strptime(s, '%Y-%m-%d')).days at instant t
days_since(t, s) == (t - strptime(s)) \div TicksPerDay
\* (datetime.now() - timedelta(days=1)).strftime('%Y-%m-%d') at instant t
yesterday_of(t) == strftime(t - TicksPerDay)

(* ------------------------------ the store ----------------------------- *)
\* the record on_message and setup_channel create for a new unique_key
NewCreator(today) ==
  [joined |-> today, total_posts |-> 0, current_streak |-> 0,
   best_streak |-> 0, last_posted |-> None, last_reminded |-> None]

\* value kept for a key that is not in data['creators']
NoCreator == NewCreator(None)

\* what load_data returns when the file cannot be read
EmptyData ==
  [tracked_channels |-> [c \in Channels |-> NoUser],
   order |-> << >>,
   creators |-> [k \in Keys |-> NoCreator],
   posts |-> [k \in Keys |-> {}]]

Range(s) == {s[i] : i \in 1..Len(s)}
\* unique_key in data['creators']
HasCreator(data, k) == k \in Range(data.order)

VARIABLES
  file,      \* contents of DATA_FILE as load_data would return them
  day,       \* the calendar day of the clock datetime.now() reads
  tickPc,    \* check_reminders: "idle", "fetch", "send" or "dead"
  tickData,  \* check_reminders: its local data
  tickPos,   \* check_reminders: index in data['creators'] of the current key
  msg,       \* on_message after save_data: the pending acknowledgment
  credited,  \* the unique_keys on_message has credited on the current day
  ev         \* what the last handler step did and answered

vars == <<file, day, tickPc, tickData, tickPos, msg, credited, ev>>

\* load_data: the file, or the empty defaults when open/json.load raises
load_data(ok) == IF ok THEN file ELSE EmptyData

SaveOutcomes == {"ok", "openfail", "truncated"}
\* the file after save_data(data): written; or open() raised and the file is
\* as before; or json.dump raised after open(..., 'w') truncated the file,
\* which load_data then reads as the empty defaults
save_data(data, res) ==
  CASE res = "ok" -> data
    [] res = "openfail" -> file
    [] OTHER -> EmptyData

NoMsg == [pc |-> "idle", key |-> <<"g1", "u1">>, current |-> 0, date |-> None]
AnyKey == <<"g1", "u1">>
\* ev: op the handler, res its answer, key/date the unique_key and date it
\* acted on, created the date of the message's own timestamp, streak/week/
\* month the figures of the 'Post Tracked' embed
Ev(op, res, key, date, io) ==
  [op |-> op, res |-> res, key |-> key, date |-> date, io |-> io,
   created |-> None, streak |-> 0, week |-> 0, month |-> 0]
NoEv == Ev("init", "none", AnyKey, None, "none")
\* io of a step: "none" no file access, "ok", "savefail" save_data raised,
\* "loadfail" load_data fell back to the defaults and no save_data raised
Io(loadOk, saveRes) ==
  IF saveRes # "ok" THEN "savefail" ELSE IF ~loadOk THEN "loadfail" ELSE "ok"

Init ==
  /\ file = EmptyData
  /\ day = 0
  /\ tickPc = "idle"
  /\ tickData = EmptyData
  /\ tickPos = 0
  /\ msg = NoMsg
  /\ credited = {}
  /\ ev = NoEv

(* ------------------------------ the clock ----------------------------- *)
\* midnight passes; last is the last day of the run
AdvanceClock(last) ==
  /\ day < last
  /\ day' = day + 1
  /\ credited' = {}
  /\ ev' = Ev("clock", "none", AnyKey, None, "none")
  /\ UNCHANGED <<file, tickPc, tickData, tickPos, msg>>

(* ----------------------------- on_message ----------------------------- *)
\* lines 105-118 and 214-227: initialize the creator if new
InitCreator(data, k, today) ==
  IF HasCreator(data, k) THEN data
  ELSE [data EXCEPT !.order = Append(@, k),
                    !.creators[k] = NewCreator(today)]

\* lines 137-142: current_streak from the presence of yesterday in the log
NextStreak(posts, yesterday, current_streak) ==
  IF yesterday \in posts THEN current_streak + 1 ELSE 1

\* lines 144-148: best_streak
NextBest(current, best) == IF current > best THEN current ELSE best

\* lines 125-148 with line 134 storing the date read at line 138
RecordPost_Yesterday(data, k, today, yesterday) ==
  LET posts == data.posts[k] \cup {today}
      c == data.creators[k]
      current == NextStreak(posts, yesterday, c.current_streak)
  IN [data EXCEPT
        !.posts[k] = posts,
        !.creators[k] = [c EXCEPT !.total_posts = @ + 1,
                                  !.last_posted = yesterday,
                                  !.current_streak = current,
                                  !.best_streak = NextBest(current, @)]]

\* lines 125-148: record the post for unique_key k. today is the date read at
\* line 101, yesterday the one read at line 138
RecordPost(data, k, today, yesterday) ==
  LET posts == data.posts[k] \cup {today}
      c == data.creators[k]
      current == NextStreak(posts, yesterday, c.current_streak)
  IN [data EXCEPT
        !.posts[k] = posts,
        !.creators[k] = [c EXCEPT !.total_posts = @ + 1,
                                  !.last_posted = today,
                                  !.current_streak = current,
                                  !.best_streak = NextBest(current, @)]]

\* line 124 without its test: every qualifying event is recorded
NotYetPosted_Always(data, k, today) == TRUE

\* line 124: today not in data['posts'][unique_key]
NotYetPosted(data, k, today) == today \notin data.posts[k]

\* lines 87-95 crediting the author (here u1) of a message in a channel that
\* has no registration
ChannelCreator_Author(data, c) ==
  IF data.tracked_channels[c] = NoUser THEN "u1" ELSE data.tracked_channels[c]

\* lines 87-95 taking the sender of the message (here u2) as the creator of
\* a registered channel
ChannelCreator_Sender(data, c) ==
  IF data.tracked_channels[c] = NoUser THEN NoUser ELSE "u2"

\* lines 87-95: the creator_id registered for channel_id, NoUser when
\* channel_id is not in data['tracked_channels']
ChannelCreator(data, c) == data.tracked_channels[c]

\* lines 69-172, up to the first await. src: who sent the message and where
\* ("user" in a guild channel, "bot", or "dm"); marker: the text contains one
\* of posted_keywords; created: the date of message.created_at; t1: the clock
\* at line 101; t2: the clock at line 138, read after it
on_message(c, src, marker, created, loadOk, saveRes, t1, t2) ==
  /\ msg.pc = "idle"
  /\ LET data == load_data(loadOk)
         u == ChannelCreator(data, c)
         k == unique_key(ChannelGuild(c), u)
         today == strftime(t1)
         data1 == InitCreator(data, k, today)
         data2 == RecordPost(data1, k, today, yesterday_of(t2))
     IN IF src # "user"
        THEN /\ ev' = Ev("message", "ignored", AnyKey, None, "none")
             /\ UNCHANGED <<file, day, msg, credited>>
        ELSE IF u = NoUser \/ ~marker
        THEN /\ ev' = Ev("message", "ignored", AnyKey, None,
                         Io(loadOk, "ok"))
             /\ UNCHANGED <<file, day, msg, credited>>
        ELSE IF NotYetPosted(data1, k, today)
        THEN /\ file' = save_data(data2, saveRes)
             /\ day' = strftime(t2)
             /\ IF saveRes = "ok"
                THEN /\ msg' = [pc |-> "react", key |-> k,
                                current |-> data2.creators[k].current_streak,
                                date |-> today]
                     /\ credited' = IF day' = day THEN credited \cup {k}
                                    ELSE {}
                     /\ ev' = [Ev("message", "saved", k, today, "ok")
                                 EXCEPT !.created = created]
                ELSE /\ msg' = NoMsg
                     /\ credited' = IF day' = day THEN credited ELSE {}
                     /\ ev' = [Ev("message", "error", k, today, "savefail")
                                 EXCEPT !.created = created]
        ELSE /\ ev' = [Ev("message", "duplicate", k, today, "ok")
                         EXCEPT !.created = created]
             /\ UNCHANGED <<file, day, msg, credited>>
  /\ UNCHANGED <<tickPc, tickData, tickPos>>

\* line 153 with a handler that takes the post back out of the store when
\* the reaction cannot be added
add_reaction_Undo(ok) ==
  /\ msg.pc = "react"
  /\ msg' = IF ok THEN [msg EXCEPT !.pc = "confirm"] ELSE NoMsg
  /\ ev' = Ev("react", IF ok THEN "ok" ELSE "error", msg.key, msg.date,
              "none")
  /\ file' = IF ok THEN file
             ELSE [file EXCEPT !.posts[msg.key] = @ \ {msg.date}]
  /\ UNCHANGED <<day, tickPc, tickData, tickPos, credited>>

\* line 153: await message.add_reaction; an exception ends the handler
add_reaction(ok) ==
  /\ msg.pc = "react"
  /\ msg' = IF ok THEN [msg EXCEPT !.pc = "confirm"] ELSE NoMsg
  /\ ev' = Ev("react", IF ok THEN "ok" ELSE "error", msg.key, msg.date,
              "none")
  /\ UNCHANGED <<file, day, tickPc, tickData, tickPos, credited>>

(* ------------------------- get_posts_in_period ------------------------ *)
\* lines 317-330 on the data it loaded, at clock instant t
CountPosts(data, k, days, t) ==
  LET cutoff == t - days * TicksPerDay
  IN Cardinality({d \in data.posts[k] : strptime(d) >= cutoff})

get_posts_in_period(k, days, loadOk, t) ==
  CountPosts(load_data(loadOk), k, days, t)

\* lines 156-168: the window counts, then await message.channel.send
send_confirmation(ok, loadOk7, loadOk30, t) ==
  /\ msg.pc = "confirm"
  /\ msg' = NoMsg
  /\ ev' = [Ev("confirm", IF ok THEN "tracked" ELSE "error", msg.key,
               msg.date,
               IF loadOk7 /\ loadOk30 THEN "ok" ELSE "loadfail")
             EXCEPT !.streak = msg.current,
                    !.week = get_posts_in_period(msg.key, 7, loadOk7, t),
                    !.month = get_posts_in_period(msg.key, 30, loadOk30, t)]
  /\ UNCHANGED <<file, day, tickPc, tickData, tickPos, credited>>

(* --------------------------- setup / unsetup -------------------------- *)
\* lines 181-247: !setup @member in channel c
setup_channel(c, u, loadOk, saveRes, t) ==
  LET data == load_data(loadOk)
      k == unique_key(ChannelGuild(c), u)
      data1 == [data EXCEPT !.tracked_channels[c] = u]
      data2 == InitCreator(data1, k, strftime(t))
  IN /\ IF data.tracked_channels[c] # NoUser
        THEN /\ ev' = Ev("setup", "already", k, None, Io(loadOk, "ok"))
             /\ file' = file
        ELSE /\ file' = save_data(data2, saveRes)
             /\ ev' = Ev("setup", IF saveRes = "ok" THEN "ok" ELSE "error", k,
                         None, Io(loadOk, saveRes))
     /\ UNCHANGED <<day, tickPc, tickData, tickPos, msg, credited>>

\* lines 251-273: !unsetup in channel c
unsetup_channel(c, loadOk, saveRes) ==
  LET data == load_data(loadOk)
      data1 == [data EXCEPT !.tracked_channels[c] = NoUser]
  IN /\ IF data.tracked_channels[c] = NoUser
        THEN /\ ev' = Ev("unsetup", "untracked", AnyKey, None,
                         Io(loadOk, "ok"))
             /\ file' = file
        ELSE /\ file' = save_data(data1, saveRes)
             /\ ev' = Ev("unsetup", IF saveRes = "ok" THEN "ok" ELSE "error",
                         AnyKey, None, Io(loadOk, saveRes))
     /\ UNCHANGED <<day, tickPc, tickData, tickPos, msg, credited>>

(* --------------------------- check_reminders -------------------------- *)
\* lines 340-356 with line 353 comparing `<=`: a reminder that is exactly
\* REMINDER_DAYS old still suppresses the next one
Evaluate_Le(c, t) ==
  IF c.last_posted = None THEN "skip"
  ELSE IF ~Parses(c.last_posted) THEN "raise"
  ELSE IF days_since(t, c.last_posted) >= REMINDER_DAYS
  THEN IF c.last_reminded # None
       THEN IF ~Parses(c.last_reminded) THEN "raise"
            ELSE IF days_since(t, c.last_reminded) <= REMINDER_DAYS
            THEN "skip" ELSE "remind"
       ELSE "remind"
  ELSE "skip"

\* lines 340-356 for one creator_info at clock instant t: "skip" (nothing to
\* send), "remind" (should_remind), or "raise" (strptime raised ValueError).
\* The clock reads of lines 344 and 352 are taken as one instant: were
\* midnight to fall between them, the outcome is the one of evaluating both
\* lines before it or both after it.
Evaluate(c, t) ==
  IF c.last_posted = None THEN "skip"
  ELSE IF ~Parses(c.last_posted) THEN "raise"
  ELSE IF days_since(t, c.last_posted) >= REMINDER_DAYS
  THEN IF c.last_reminded # None
       THEN IF ~Parses(c.last_reminded) THEN "raise"
            ELSE IF days_since(t, c.last_reminded) < REMINDER_DAYS
            THEN "skip" ELSE "remind"
       ELSE "remind"
  ELSE "skip"

\* line 339: the for loop from position i of data['creators'] to its first
\* await (kind "remind"), to the exception that ends it ("raise") or to its
\* end ("done")
RECURSIVE Scan(_, _, _)
Scan(data, i, t) ==
  IF i > Len(data.order) THEN [kind |-> "done", pos |-> 0]
  ELSE LET r == Evaluate(data.creators[data.order[i]], t)
       IN IF r = "skip" THEN Scan(data, i + 1, t)
          ELSE [kind |-> r, pos |-> i]

\* the task after the loop ran on from position i: waiting in the try block
\* of the creator at r.pos, finished, or stopped by the exception (an
\* exception leaving the body of a tasks.loop ends the loop for good)
Resume(data, i, t) ==
  LET r == Scan(data, i, t)
  IN /\ tickPc' = CASE r.kind = "remind" -> "fetch"
                    [] r.kind = "raise" -> "dead"
                    [] OTHER -> "idle"
     /\ tickPos' = r.pos
     /\ tickData' = IF r.kind = "remind" THEN data ELSE EmptyData

\* lines 334-339: a run of the 12-hour loop starts
check_reminders(loadOk, t) ==
  /\ tickPc = "idle"
  /\ Resume(load_data(loadOk), 1, t)
  /\ ev' = Ev("tick", "start", AnyKey, None, Io(loadOk, "ok"))
  /\ UNCHANGED <<file, day, msg, credited>>

\* line 359: await bot.fetch_user; an exception goes to `except: pass`
fetch_user(ok, t) ==
  /\ tickPc = "fetch"
  /\ LET k == tickData.order[tickPos]
     IN IF ok
        THEN /\ tickPc' = "send"
             /\ ev' = Ev("fetch", "ok", k, None, "none")
             /\ UNCHANGED <<tickData, tickPos>>
        ELSE /\ Resume(tickData, tickPos + 1, t)
             /\ ev' = Ev("tick", "undelivered", k, strftime(t), "none")
  /\ UNCHANGED <<file, day, msg, credited>>

\* lines 390-392: last_reminded of the local data, then save_data(data)
MarkReminded(data, k, today) ==
  [data EXCEPT !.creators[k].last_reminded = today]

\* lines 388-395: await user.send, then the update and the save; every
\* exception, the one of save_data included, goes to `except: pass`
send_reminder(ok, saveRes, t) ==
  /\ tickPc = "send"
  /\ LET k == tickData.order[tickPos]
         today == strftime(t)
         data == MarkReminded(tickData, k, today)
     IN IF ok
        THEN /\ file' = save_data(data, saveRes)
             /\ Resume(data, tickPos + 1, t)
             /\ ev' = Ev("tick", "delivered", k, today,
                         IF saveRes = "ok" THEN "ok" ELSE "savefail")
        ELSE /\ file' = file
             /\ Resume(tickData, tickPos + 1, t)
             /\ ev' = Ev("tick", "undelivered", k, today, "none")
  /\ UNCHANGED <<day, msg, credited>>

(* --------------------------- specification ---------------------------- *)
Sources == {"user", "bot", "dm"}
\* the instants datetime.now() can return on the current day
Now == {Instant(day, tod) : tod \in TimesOfDay}
\* the clock at a later read in the same handler: the same instant, or the
\* first instant of the next day when midnight falls between the two reads
\* (Straddle says whether the run lets that happen)
LaterReads(t, last, Straddle) ==
  {t} \cup (IF TRUE \in Straddle /\ day < last THEN {Instant(day + 1, 0)}
           ELSE {})
\* the dates message.created_at can show for a message handled today
CreatedDates == {d \in {day - 1, day} : d >= 0}

\* one step of the bot serving the channels Cs, whose guilds have the
\* members Us; Loads and Saves are the outcomes load_data and save_data can
\* have, last is the last day of the run
Step(Cs, Us, Loads, Saves, last, Straddle) ==
  \/ AdvanceClock(last)
  \/ \E c \in Cs, src \in Sources, marker \in BOOLEAN,
        created \in CreatedDates, loadOk \in Loads, saveRes \in Saves,
        t1 \in Now :
        \E t2 \in LaterReads(t1, last, Straddle) :
          on_message(c, src, marker, created, loadOk, saveRes, t1, t2)
  \/ \E ok \in BOOLEAN : add_reaction(ok)
  \/ \E ok \in BOOLEAN, l7 \in Loads, l30 \in Loads, t \in Now :
        send_confirmation(ok, l7, l30, t)
  \/ \E c \in Cs, u \in Us, loadOk \in Loads, saveRes \in Saves,
        t \in Now :
        setup_channel(c, u, loadOk, saveRes, t)
  \/ \E c \in Cs, loadOk \in Loads, saveRes \in Saves :
        unsetup_channel(c, loadOk, saveRes)
  \/ \E loadOk \in Loads, t \in Now : check_reminders(loadOk, t)
  \/ \E ok \in BOOLEAN, t \in Now : fetch_user(ok, t)
  \/ \E ok \in BOOLEAN, saveRes \in Saves, t \in Now :
        send_reminder(ok, saveRes, t)

\* a fresh install (no DATA_FILE) serving one channel with one creator, on a
\* file system where load_data and save_data may fail
Next == Step({"c1"}, {"u1"}, BOOLEAN, SaveOutcomes, MaxDay, BOOLEAN)
Spec == Init /\ [][Next]_vars

\* a fresh install serving a channel in each of two guilds, the same user
\* being the creator in both, on a file system that never fails and with no
\* handler running across midnight
NextPair == Step(Channels, {"u1"}, {TRUE}, {"ok"}, PairLastDay, {FALSE})
SpecPair == Init /\ [][NextPair]_vars

\* DATA_FILE as an earlier run (or an edit) left it: both channels set up on
\* day 0 and a post credited to each creator that day, the creators stored in
\* the order ord, and the field fld ("last_posted" or "last_reminded") of
\* creator bad holding a string that is not a date
StoredFile(ord, bad, fld) ==
  LET c0 == [joined |-> 0, total_posts |-> 1, current_streak |-> 1,
             best_streak |-> 1, last_posted |-> 0, last_reminded |-> None]
  IN [tracked_channels |-> [c \in Channels |-> "u1"],
      order |-> ord,
      creators |-> [k \in Keys |->
                     IF k \notin Range(ord) THEN NoCreator
                     ELSE IF k # bad THEN c0
                     ELSE IF fld = "last_posted"
                     THEN [c0 EXCEPT !.last_posted = Bad]
                     ELSE [c0 EXCEPT !.last_reminded = Bad]],
      posts |-> [k \in Keys |-> IF k \in Range(ord) THEN {0} ELSE {}]]

KeyA == <<"g1", "u1">>
KeyB == <<"g2", "u1">>
\* the day the bot starts on the stored file
StoredDay == 2

InitStored ==
  /\ \E ord \in {<<KeyA, KeyB>>, <<KeyB, KeyA>>}, bad \in {KeyA, KeyB},
        fld \in {"last_posted", "last_reminded"} :
        file = StoredFile(ord, bad, fld)
  /\ day = StoredDay
  /\ tickPc = "idle"
  /\ tickData = EmptyData
  /\ tickPos = 0
  /\ msg = NoMsg
  /\ credited = {}
  /\ ev = NoEv

\* the bot started on such a file, serving one of the channels
NextStored == Step({"c1"}, {"u1"}, {TRUE}, {"ok"}, MaxDay, {FALSE})
SpecStored == InitStored /\ [][NextStored]_vars

(* --------------------------- individual_stats -------------------------- *)
\* lines 516-550: !stats @member in guild g; load_data, then the two window
\* counts (each loads the file again), then the embed
individual_stats(g, u, loadOk, loadOk7, loadOk30, t) ==
  LET data == load_data(loadOk)
      k == unique_key(g, u)
  IN /\ IF ~HasCreator(data, k)
        THEN ev' = Ev("stats", "nodata", k, None, Io(loadOk, "ok"))
        ELSE ev' = [Ev("stats", "shown", k, None,
                       Io(loadOk /\ loadOk7 /\ loadOk30, "ok"))
                     EXCEPT !.streak = data.creators[k].current_streak,
                            !.week = get_posts_in_period(k, 7, loadOk7, t),
                            !.month = get_posts_in_period(k, 30, loadOk30, t)]
     /\ UNCHANGED <<file, day, tickPc, tickData, tickPos, msg, credited>>

\* last calendar day the clock reaches in the run that fills a week
WindowLastDay == 8

\* DATA_FILE after !setup #c1 @u1 on day 0
RegisteredFile ==
  InitCreator([EmptyData EXCEPT !.tracked_channels["c1"] = "u1"], KeyA, 0)

InitWindow ==
  /\ file = RegisteredFile
  /\ day = 0
  /\ tickPc = "idle"
  /\ tickData = EmptyData
  /\ tickPos = 0
  /\ msg = NoMsg
  /\ credited = {}
  /\ ev = NoEv

\* the creator of c1 posting over more than a week and asking for !stats, on
\* a file system that never fails; the acknowledgment of a post is sent on
\* the day the post was handled
NextWindow ==
  \/ msg.pc = "idle" /\ AdvanceClock(WindowLastDay)
  \/ \E src \in Sources, marker \in BOOLEAN, created \in CreatedDates,
        t \in Now :
        on_message("c1", src, marker, created, TRUE, "ok", t, t)
  \/ \E ok \in BOOLEAN : add_reaction(ok)
  \/ \E ok \in BOOLEAN, t \in Now : send_confirmation(ok, TRUE, TRUE, t)
  \/ \E t \in Now : individual_stats("g1", "u1", TRUE, TRUE, TRUE, t)
SpecWindow == InitWindow /\ [][NextWindow]_vars

\* a fresh install serving one channel whose guild has two members, either
\* of whom can be made its creator, on a file system that never fails
NextMembers == Step({"c1"}, Users, {TRUE}, {"ok"}, PairLastDay, {FALSE})
SpecMembers == Init /\ [][NextMembers]_vars

(* ------------------------------- claims -------------------------------- *)
\* the step just taken is on_message reaching the 'posted' branch
PostedBranch == ev'.op = "message" /\ ev'.res # "ignored"

\* C1: a qualifying event handled on a date that already has a PostLog entry
\* for its key is answered as a duplicate and changes nothing: the store
\* (counters, streaks, last_posted, PostLog) stays as the first event left it,
\* and no acknowledgment is pending.
C1_Idempotent ==
  [][(PostedBranch /\ ev'.date \in file.posts[ev'.key])
       => (ev'.res = "duplicate" /\ file' = file /\ msg' = msg
           /\ credited' = credited)]_vars

\* a second event of the day was answered as a duplicate, the key still
\* holding the one post the first event recorded
C1_Witness ==
  /\ ev.op = "message" /\ ev.res = "duplicate"
  /\ ev.date \in file.posts[ev.key]
  /\ file.creators[ev.key].total_posts = 1
  /\ file.creators[ev.key].last_posted = ev.date

\* the number of consecutive dates d, d-1, ... in the set P
RECURSIVE RunLength(_, _)
RunLength(P, d) == IF d \in P THEN 1 + RunLength(P, d - 1) ELSE 0

\* C2: current_streak of every creator that has posted is the length of the
\* run of consecutive PostLog dates ending at last_posted (so it is 1 after
\* any gap).
C2_StreakIsRun ==
  \A k \in Keys :
    (HasCreator(file, k) /\ file.creators[k].last_posted # None)
      => file.creators[k].current_streak
           = RunLength(file.posts[k], file.creators[k].last_posted)

\* the step just taken is one of check_reminders on a file system that did
\* not fail it: the start of a run, or a delivered reminder and its save
TickStep == ev'.op = "tick" /\ ev'.io = "ok"

\* C3: a step of the reminder loop never removes a committed PostLog entry
\* from the persisted store, whatever on_message did while the loop was
\* waiting.
C3_TickKeepsPosts ==
  [][TickStep => \A k \in Keys : file.posts[k] \subseteq file'.posts[k]]_vars

\* C4: once the delivery of a due reminder has been attempted, delivered or
\* not, last_reminded of that creator is today in the persisted store.
C4_RemindedWhateverOutcome ==
  (ev.op = "tick" /\ ev.res \in {"delivered", "undelivered"}
     /\ ev.io # "savefail")
    => file.creators[ev.key].last_reminded = ev.date

\* C5: on_message never credits a key that it has already credited on the
\* same calendar date.
C5_OneCreditPerDay ==
  [][(ev'.op = "message" /\ ev'.res = "saved") => ev'.key \notin credited]_vars

\* the condition of section 4.3 for a reminder to be due on date today
Due(c, today) ==
  /\ c.last_posted # None
  /\ today - c.last_posted >= REMINDER_DAYS
  /\ (c.last_reminded = None \/ today - c.last_reminded >= REMINDER_DAYS)

\* the data a step of check_reminders evaluates, and the positions of
\* data['creators'] it evaluates: from the one after the creator it was
\* waiting for, up to the creator it waits for next or to the end
ScanData == IF tickPc = "idle" THEN load_data(ev'.io # "loadfail") ELSE tickData
ScanFrom == IF tickPc = "idle" THEN 1 ELSE tickPos + 1
ScanTo == IF tickPc' = "fetch" THEN tickPos' ELSE Len(ScanData.order)

\* C6: every creator a run of check_reminders evaluates gets a reminder
\* intent exactly if it last posted at least REMINDER_DAYS days ago and
\* last_reminded is unset or at least REMINDER_DAYS days old; the run moves
\* forward only, so a creator gets at most one intent per run.
C6_RemindExactlyWhenDue ==
  [][ev'.op = "tick" =>
       /\ ScanTo >= ScanFrom - 1
       /\ \A p \in ScanFrom..ScanTo :
            (tickPc' = "fetch" /\ tickPos' = p)
              <=> Due(ScanData.creators[ScanData.order[p]], day)]_vars

\* a run waits to deliver a reminder to a creator whose last reminder is
\* REMINDER_DAYS old
C6_Witness ==
  /\ tickPc = "fetch"
  /\ tickData.creators[tickData.order[tickPos]].last_reminded
       = day - REMINDER_DAYS

\* a run has ended without a reminder for a creator who last posted 3 days
\* ago and was reminded 1 day ago
C6_WitnessSuppressed ==
  /\ ev.op = "tick" /\ ev.res = "start" /\ ev.io = "ok" /\ tickPc = "idle"
  /\ \E k \in Keys :
       /\ HasCreator(file, k)
       /\ file.creators[k].last_posted = day - 3
       /\ file.creators[k].last_reminded = day - 1

\* C7: best_streak of a creator never decreases, and current_streak never
\* exceeds it.
C7_BestMonotone ==
  [][\A k \in Keys :
       /\ file'.creators[k].best_streak >= file.creators[k].best_streak
       /\ file'.creators[k].current_streak <= file'.creators[k].best_streak]_vars

\* C8: a step whose load_data failed leaves every channel registration,
\* creator record and PostLog entry of the persisted store as it was.
C8_FailedLoadKeepsStore ==
  [][ev'.io = "loadfail" =>
       /\ \A c \in Channels :
            file.tracked_channels[c] # NoUser
              => file'.tracked_channels[c] = file.tracked_channels[c]
       /\ \A k \in Keys :
            /\ HasCreator(file, k)
                 => (HasCreator(file', k)
                     /\ file'.creators[k] = file.creators[k])
            /\ file.posts[k] \subseteq file'.posts[k]]_vars

\* C10: a credited event is logged under the date of its own timestamp,
\* which becomes last_posted.
C10_CreditsEventDate ==
  (ev.op = "message" /\ ev.res = "saved")
    => /\ ev.created \in file.posts[ev.key]
       /\ file.creators[ev.key].last_posted = ev.created

\* C9: an unparseable stored date never ends check_reminders: the run goes
\* on to the other creators and later runs still start.
C9_PassSurvives == tickPc # "dead"

\* the creator of key k has lapsed in data on date d: it has posted, and the
\* last post is at least REMINDER_DAYS days old
Lapsed(data, k, d) ==
  /\ HasCreator(data, k)
  /\ data.creators[k].last_posted # None
  /\ d - data.creators[k].last_posted >= REMINDER_DAYS

\* C11: a lapsed creator stays lapsed until on_message credits a new post to
\* it (neither !unsetup nor a later date nor any other step ends it), and a
\* run of check_reminders that starts while a lapsed creator has no reminder
\* younger than REMINDER_DAYS goes on to that creator's reminder: it waits at
\* it or at a creator before it, holding the record that makes it due.
C11_ReminderMachine ==
  [][/\ \A k \in Keys :
          (Lapsed(file, k, day) /\ ~Lapsed(file', k, day'))
            => (ev'.op = "message" /\ ev'.res = "saved" /\ ev'.key = k)
     /\ (ev'.op = "tick" /\ ev'.res = "start")
          => \A k \in Keys :
               (HasCreator(file, k) /\ Due(file.creators[k], day))
                 => /\ tickPc' = "fetch"
                    /\ \E p \in tickPos'..Len(tickData'.order) :
                         /\ tickData'.order[p] = k
                         /\ tickData'.creators[k] = file.creators[k]]_vars

\* the step just taken is one of check_reminders that ends waiting to
\* deliver a reminder: a reminder intent for the creator at tickPos'
EmitsIntent == ev'.op = "tick" /\ tickPc' = "fetch"

\* C12: a reminder intent is emitted only for a creator that has lapsed
\* according to the persisted store: last_posted is set and at least
\* REMINDER_DAYS days before today.
C12_OnlyLapsedReminded ==
  [][EmitsIntent => Lapsed(file', tickData'.order[tickPos'], day')]_vars

\* the step just taken is an operation on unique_key k: a credited or
\* duplicate event, a registration, or the delivery of a reminder
OperatesOn(k) ==
  /\ ev'.key = k
  /\ \/ ev'.op = "message" /\ ev'.res \in {"saved", "duplicate"}
     \/ ev'.op = "setup" /\ ev'.res \in {"ok", "already"}
     \/ ev'.op = "tick" /\ ev'.res \in {"delivered", "undelivered"}

\* C13: an operation on the key of a creator in one guild leaves the creator
\* record and the PostLog of the same user's key in the other guild as they
\* were.
C13_Isolation ==
  [][\A k \in {KeyA, KeyB} : \A j \in {KeyA, KeyB} \ {k} :
       OperatesOn(k) => /\ file'.creators[j] = file.creators[j]
                        /\ file'.posts[j] = file.posts[j]]_vars

\* the number of PostLog dates of k among the n calendar dates ending today
WindowDates(data, k, n, today) ==
  Cardinality({d \in data.posts[k] : today - n < d /\ d <= today})

\* the step just taken showed window counts: the 'Post Tracked' embed or the
\* !stats embed, every load_data having succeeded
ShowsCounts == ev'.op \in {"confirm", "stats"} /\ ev'.io = "ok"

\* C14: the week and month figures are the numbers of PostLog dates of the
\* key among the last 7 and the last 30 calendar dates, whatever the time of
\* day, and computing them changes nothing.
C14_WindowCount ==
  [][ShowsCounts =>
       /\ ev'.week = WindowDates(file, ev'.key, 7, day)
       /\ ev'.month = WindowDates(file, ev'.key, 30, day)
       /\ file' = file]_vars

\* C20: a week figure is never above 7 and a month figure never above 30,
\* and the figures of the 'Post Tracked' embed, computed right after the
\* event was credited, are at least 1.
C20_CountsInRange ==
  (ev.op \in {"confirm", "stats"})
    => /\ ev.week <= 7
       /\ ev.month <= 30
       /\ ev.op = "confirm" => (ev.week >= 1 /\ ev.month >= 1)

C16_AckAfterCommit ==
  [][/\ (msg.pc = "idle" /\ msg'.pc # "idle")
          => /\ ev'.op = "message" /\ ev'.res = "saved"
             /\ msg'.date \in file'.posts[msg'.key]
             /\ file'.creators[msg'.key].last_posted = msg'.date
             /\ file'.creators[msg'.key].current_streak = msg'.current
     /\ ev'.op \in {"react", "confirm"}
          => (msg.pc # "idle" /\ file' = file)]_vars

\* the reaction failed and the post it was to acknowledge is in the store
C16_Witness ==
  /\ ev.op = "react" /\ ev.res = "error"
  /\ ev.date \in file.posts[ev.key]
  /\ file.creators[ev.key].last_posted = ev.date

\* the channel of the guild a !setup was given in
SetupChannel == CHOOSE c \in Channels : ChannelGuild(c) = ev'.key[1]

\* C17: !setup in a channel that has a registration leaves the persisted
\* store as it is, and the creator registered for a channel changes only by
\* !unsetup removing the registration and !setup writing one for a channel
\* that has none.
C17_OneRegistration ==
  [][/\ (ev'.op = "setup" /\ file.tracked_channels[SetupChannel] # NoUser)
          => file' = file
     /\ \A c \in Channels :
          file'.tracked_channels[c] # file.tracked_channels[c]
            => \/ /\ ev'.op = "unsetup"
                  /\ file'.tracked_channels[c] = NoUser
               \/ /\ ev'.op = "setup"
                  /\ file.tracked_channels[c] = NoUser]_vars

\* C18: a completed !unsetup removes one registration and leaves every
\* creator record and PostLog as it was, and a completed !setup for a
\* creator that already has a record leaves that record (counters, streaks,
\* dates, joined) and its PostLog as they were.
C18_UnsetupKeepsRecord ==
  [][/\ (ev'.op = "unsetup" /\ ev'.res = "ok")
          => /\ file'.order = file.order
             /\ file'.creators = file.creators
             /\ file'.posts = file.posts
             /\ Cardinality({c \in Channels :
                   file'.tracked_channels[c] # file.tracked_channels[c]}) = 1
     /\ (ev'.op = "setup" /\ ev'.res = "ok" /\ HasCreator(file, ev'.key))
          => /\ HasCreator(file', ev'.key)
             /\ file'.creators[ev'.key] = file.creators[ev'.key]
             /\ file'.posts[ev'.key] = file.posts[ev'.key]]_vars

\* the most recent date of a non-empty PostLog
Latest(P) == CHOOSE d \in P : \A e \in P : e <= d

\* C19: in the persisted store total_posts of every key is the number of
\* dates in its PostLog, and last_posted is unset when the PostLog is empty
\* and its most recent date otherwise.
C19_CountersMatchLog ==
  \A k \in Keys :
    /\ file.creators[k].total_posts = Cardinality(file.posts[k])
    /\ file.creators[k].last_posted
         = IF file.posts[k] = {} THEN None ELSE Latest(file.posts[k])

\* a creator was credited a third post, after a day without one
C19_Witness ==
  /\ ev.op = "message" /\ ev.res = "saved"
  /\ file.posts[ev.key] = {0, 1, 3}
  /\ file.creators[ev.key].total_posts = 3

\* C21: an event of c1 that reaches the 'posted' branch acts on the key of
\* c1's guild and the creator registered for c1, a credited one logging its
\* date under that key; a message from a bot or a direct message changes
\* nothing.
C21_CreditsRegisteredCreator ==
  [][/\ PostedBranch
          => /\ file.tracked_channels["c1"] # NoUser
             /\ ev'.key = unique_key("g1", file.tracked_channels["c1"])
             /\ ev'.res = "saved" => ev'.date \in file'.posts[ev'.key]
     /\ (ev'.op = "message" /\ ev'.io = "none")
          => UNCHANGED <<file, day, tickPc, tickData, tickPos, msg,
                         credited>>]_vars

\* a post was credited to u2, the creator registered for c1 now, while u1,
\* its creator before, keeps the post credited to it earlier
C21_Witness ==
  /\ ev.op = "message" /\ ev.res = "saved"
  /\ ev.key = <<"g1", "u2">>
  /\ file.tracked_channels["c1"] = "u2"
  /\ file.posts[<<"g1", "u1">>] # {}
  /\ ev.date \in file.posts[<<"g1", "u2">>]

====
